---- MODULE Spec2Model ----
(***************************************************************************)
(* Post lifecycle of the social planner backend: the request handlers of   *)
(* the PostgreSQL server (drafts, send-for-approval, approve, reject,      *)
(* schedule, post-now, delete) and the one-minute cron job that publishes  *)
(* due posts, over the posts table of database-pg.                         *)
(***************************************************************************)
EXTENDS Integers, Sequences, FiniteSets, TLC

\* ------------------------------------------------------------------ bounds
\* Last calendar day of the modelled business clock (days are 1..MaxDate).
MaxDate == 1

\* Most media items one request body carries.
MaxItems == 2
\* Most objects ever uploaded to the storage bucket.
MaxObjects == 2
\* Cron callbacks that may be in flight together.
MaxTicks == 2
\* Request handlers that may be in flight together.
MaxRequests == 2

\* schedule_date values, and the schedule_time values of one day ("HH:MM").
Dates == 1..MaxDate
Times == {0, 1}
LastTime == CHOOSE t \in Times : \A u \in Times : u <= t

\* ------------------------------------------------------------ value domains
PostIds == {"p1"}
\* approverId of a request body; "none" is a body that omits the field.
ApproverIds == {"a1", "a2"}
RequestApproverIds == ApproverIds \cup {"none"}
Statuses == {"draft", "pending_approval", "scheduled", "published", "failed"}
\* approvalStatus.approved is null, true or false.
Flags == {"null", "true", "false"}

\* What the external platform does with one adapter call.
Envs == {"ok", "not_connected"}

\* approval_status column: JSON null, or an object.
\* A field the object does not have (undefined) is "none".
NoApproval ==
  [present |-> FALSE, approverId |-> "none", approved |-> "null",
   requestedBy |-> "none", note |-> "none"]
ApprovalObj(a, f) ==
  [present |-> TRUE, approverId |-> a, approved |-> f,
   requestedBy |-> "none", note |-> "none"]
\* userId and note of a send-for-approval request body ("none": omitted).
UserIds == {"u1"}
Notes == {"none", "n1"}
\* Variant of the metadata that records neither who asked nor the note.
ApprovalRequestBare(approverId, userId, note) == ApprovalObj(approverId, "null")

\* The approvalStatus object send-for-approval builds; note: note || ''.
ApprovalRequest(approverId, userId, note) ==
  [present |-> TRUE, approverId |-> approverId, approved |-> "null",
   requestedBy |-> userId, note |-> IF note = "none" THEN "" ELSE note]
\* postData.approvalStatus as a client may send it.
ApprovalInputs == {NoApproval} \cup {ApprovalObj(a, f) : a \in {"a1"}, f \in Flags}

\* ------------------------------------------------------------------ media
\* A media payload is a data URL; what the code looks at is its kind.
MediaTypes == {"image", "video", "pdf"}
\* postData.mediaItems (each item carries base64Data) and the legacy
\* postData.media ("none": the body has no such field). A body is in the new
\* format (mediaItems), in the legacy format (media), without media, or
\* carries one item together with a legacy media of another kind.
NoMedia == [items |-> << >>, media |-> "none"]
BothMedia == {[items |-> <<type>>, media |-> other] : type \in MediaTypes, other \in MediaTypes}
BodyMedia ==
  {[items |-> its, media |-> "none"] : its \in UNION {[1..n -> MediaTypes] : n \in 0..MaxItems}}
    \cup {[items |-> << >>, media |-> type] : type \in MediaTypes}
    \cup {m \in BothMedia : m.items[1] # m.media}
\* The storage module: initialised and reachable, never initialised
\* (credentials missing), or initialised with every call failing.
StorageEnvs == {"ok", "unconfigured", "unavailable"}

\* The bucket: object number -> the kind of its content, "gone" once deleted.
\* A file name is `${userId}/${timestamp}-${randomHash}.${ext}`: always new.
\* storage.uploadMedia: throws unless the client exists and the upload works.
uploadMedia(objs, type, st) ==
  IF st = "ok"
    THEN [ok |-> TRUE, url |-> Len(objs) + 1, objects |-> Append(objs, type)]
    ELSE [ok |-> FALSE, url |-> 0, objects |-> objs]

\* storage.uploadMultipleMedia past its initialisation test: one uploadMedia
\* per item, a failed one leaving an entry without url, dropped by the
\* caller's filter(item => item.url).
RECURSIVE uploadEach(_, _, _)
uploadEach(objs, items, st) ==
  IF items = << >> THEN [items |-> << >>, objects |-> objs]
  ELSE LET up == uploadMedia(objs, Head(items), st)
           rest == uploadEach(up.objects, Tail(items), st)
       IN [ items   |-> (IF up.ok THEN <<[url |-> up.url, type |-> Head(items)]>> ELSE << >>)
                          \o rest.items,
            objects |-> rest.objects ]

\* storage.uploadMultipleMedia: throws when the client was never initialised.
uploadMultipleMedia(objs, items, st) ==
  IF st = "unconfigured"
    THEN [ok |-> FALSE, items |-> << >>, objects |-> objs]
    ELSE [ok |-> TRUE, items |-> uploadEach(objs, items, st).items,
          objects |-> uploadEach(objs, items, st).objects]

\* storage.downloadMediaAsBase64: the data URL of the object, or a throw
\* ("none").
downloadMediaAsBase64(objs, url, st) ==
  IF st = "ok" /\ url \in 1..Len(objs) /\ objs[url] # "gone" THEN objs[url] ELSE "none"

\* storage.deleteMedia inside the caller's try/catch.
deleteMedia(objs, url, st) ==
  IF st = "ok" /\ url \in 1..Len(objs) THEN [objs EXCEPT ![url] = "gone"] ELSE objs

\* storage.deleteMultipleMedia
RECURSIVE deleteMultipleMedia(_, _, _)
deleteMultipleMedia(objs, urls, st) ==
  IF urls = << >> THEN objs
  ELSE deleteMultipleMedia(deleteMedia(objs, Head(urls), st), Tail(urls), st)

\* The upload step of /api/drafts, /api/schedule and /api/post-now: the
\* mediaItems array through uploadMultipleMedia, else the legacy single media
\* through uploadMedia; ok = FALSE is the handler's "return 500".
UploadBody(objs, m, st) ==
  IF Len(m.items) > 0
    THEN LET up == uploadMultipleMedia(objs, m.items, st)
         IN [ ok |-> up.ok, items |-> up.items, objects |-> up.objects,
              mediaUrl |-> IF Len(up.items) > 0 THEN up.items[1].url ELSE 0 ]
  ELSE IF m.media # "none"
    THEN LET up == uploadMedia(objs, m.media, st)
         IN [ ok |-> up.ok, objects |-> up.objects, mediaUrl |-> up.url,
              items |-> IF up.ok THEN <<[url |-> up.url, type |-> m.media]>> ELSE << >> ]
  ELSE [ok |-> TRUE, items |-> << >>, objects |-> objs, mediaUrl |-> 0]

\* The upload step of send-for-approval: one uploadMedia per item, each in
\* its own try/catch that drops the item; the legacy single media only when
\* no item was uploaded, its failure being the handler's "return 500".
UploadForApproval(objs, m, st) ==
  LET each == uploadEach(objs, m.items, st)
  IN IF Len(each.items) = 0 /\ m.media # "none"
       THEN LET up == uploadMedia(each.objects, m.media, st)
            IN [ok |-> up.ok, items |-> << >>, objects |-> up.objects, mediaUrl |-> up.url]
       ELSE [ ok |-> TRUE, items |-> each.items, objects |-> each.objects,
              mediaUrl |-> IF Len(each.items) > 0 THEN each.items[1].url ELSE 0 ]

\* What a publish hands to the adapters: the media items that were downloaded
\* (base64Data), and postData.media.
NoPostData == [items |-> << >>, media |-> "none"]

RECURSIVE downloadEach(_, _, _)
downloadEach(objs, items, st) ==
  IF items = << >> THEN << >>
  ELSE LET data == downloadMediaAsBase64(objs, Head(items).url, st)
       IN (IF data # "none" THEN <<[type |-> Head(items).type, base64Data |-> data]>>
                            ELSE << >>)
            \o downloadEach(objs, Tail(items), st)

\* mediaItemsWithBase64, the legacy download of mediaUrl when no item was
\* downloaded, and "if (mediaItemsWithBase64.length > 0 && !post.media)
\* post.media = mediaItemsWithBase64[0].base64Data".
WithMedia(media, mediaItems, mediaUrl, objs, st) ==
  LET withBase64 == downloadEach(objs, mediaItems, st)
      legacy == IF Len(withBase64) = 0 /\ mediaUrl # 0 /\ media = "none"
                  THEN downloadMediaAsBase64(objs, mediaUrl, st) ELSE media
  IN [ items |-> withBase64,
       media |-> IF Len(withBase64) > 0 /\ legacy = "none"
                   THEN withBase64[1].base64Data ELSE legacy ]

\* results column: one entry per platform, "absent" when the key is missing.
NoResults == [facebook |-> "absent", linkedin |-> "absent"]

\* --------------------------------------------------------------- adapters
\* The items of one kind that were downloaded.
OfType(items, type) == SelectSeq(items, LAMBDA it : it.type = type)
Payloads(items) == [i \in 1..Len(items) |-> items[i].base64Data]

\* postToFacebook past the token checks: which Graph API endpoint gets the
\* post and the payloads uploaded to it. Two or more images: each to /photos,
\* then /feed with attached_media; else the first image, the first video or
\* postData.media to /videos or /photos by its MIME type; else a text-only
\* /feed post. PDF items are only logged.
FacebookRequest(pd) ==
  LET images == OfType(pd.items, "image")
      videos == OfType(pd.items, "video")
      singleMedia == IF Len(images) = 1 THEN images[1].base64Data
                     ELSE IF Len(videos) > 0 THEN videos[1].base64Data
                     ELSE pd.media
  IN IF Len(images) > 1 THEN [endpoint |-> "photos+feed", sent |-> Payloads(images)]
     ELSE IF singleMedia # "none"
       THEN [endpoint |-> IF singleMedia = "video" THEN "videos" ELSE "photos",
             sent |-> <<singleMedia>>]
     ELSE [endpoint |-> "feed", sent |-> << >>]

\* postToLinkedIn past the token checks: a PDF item goes through the document
\* flow; else two or more images, the first image, the first video or
\* postData.media as an asset of a ugcPost; else a text-only ugcPost.
LinkedInRequest(pd) ==
  LET images == OfType(pd.items, "image")
      videos == OfType(pd.items, "video")
      pdfs == OfType(pd.items, "pdf")
      singleMedia == IF Len(images) = 1 THEN images[1].base64Data
                     ELSE IF Len(videos) > 0 THEN videos[1].base64Data
                     ELSE pd.media
  IN IF Len(pdfs) > 0 THEN [endpoint |-> "documents", sent |-> <<pdfs[1].base64Data>>]
     ELSE IF Len(images) > 1 THEN [endpoint |-> "assets+ugcPosts", sent |-> Payloads(images)]
     ELSE IF singleMedia # "none" THEN [endpoint |-> "assets+ugcPosts", sent |-> <<singleMedia>>]
     ELSE [endpoint |-> "ugcPosts", sent |-> << >>]

\* postToFacebook: returns the API response or throws an Error with a message.
postToFacebook(env, pd) ==
  IF env = "not_connected"
    THEN [ok |-> FALSE, msg |-> "Facebook no esta conectado", endpoint |-> "none", sent |-> << >>]
    ELSE [ok |-> TRUE,  msg |-> "ok", endpoint |-> FacebookRequest(pd).endpoint,
          sent |-> FacebookRequest(pd).sent]

\* postToLinkedIn: returns the API response or throws an Error with a message.
postToLinkedIn(env, pd) ==
  IF env = "not_connected"
    THEN [ok |-> FALSE, msg |-> "LinkedIn no esta conectado", endpoint |-> "none", sent |-> << >>]
    ELSE [ok |-> TRUE,  msg |-> "ok", endpoint |-> LinkedInRequest(pd).endpoint,
          sent |-> LinkedInRequest(pd).sent]

\* One adapter invocation, as logged by the operation that made it.
Call(id, platform, r) ==
  [id |-> id, platform |-> platform, ok |-> r.ok, endpoint |-> r.endpoint, sent |-> r.sent]

\* One notification e-mail handed to a send*Email function. Each of these
\* functions catches its own errors and returns, so whether the mail server
\* accepted the mail is invisible to the caller.
Mail(id, kind) == [id |-> id, kind |-> kind]

\* ------------------------------------------------------------------- time
\* "${date} ${time}" <= "${limaDate} ${limaTime}" on zero-padded strings.
StrLeq(d1, t1, d2, t2) == d1 < d2 \/ (d1 = d2 /\ t1 <= t2)

\* new Date(`${scheduleDate}T${scheduleTime}`) <= limaTime
DateLeq(d1, t1, d2, t2) == d1 * (LastTime + 1) + t1 <= d2 * (LastTime + 1) + t2

\* ------------------------------------------------------------------ state
VARIABLES
  posts,   \* posts table with each post's post_media rows: post id -> row
  objects, \* the storage bucket
  now,     \* business-timezone clock, <<date, time>>
  last,    \* the operation that has just run: its response and adapter calls
  running, \* the cron callbacks in flight, each between two of its awaits
  inflight, \* the request handlers in flight, each between two of its awaits
  usePostgres \* the store behind readDB/writeDB: PostgreSQL, or the JSON file

vars == <<posts, objects, now, last, running, inflight, usePostgres>>

Exists(id) == id \in DOMAIN posts

\* database-pg createPost: INSERT of the listed columns only. A new post has
\* no post_media rows.
createPost(post) ==
  [ status    |-> post.status,
    approval  |-> IF "approvalStatus" \in DOMAIN post THEN post.approvalStatus ELSE NoApproval,
    facebook  |-> post.facebook,
    linkedin  |-> post.linkedin,
    date      |-> post.scheduleDate,
    time      |-> post.scheduleTime,
    results   |-> NoResults,
    deleted   |-> FALSE,
    mediaUrl  |-> 0,
    mediaItems |-> << >> ]

\* database-pg updatePost: SET only the fields that are not undefined.
updatePost(row, updates) ==
  [ status    |-> IF "status" \in DOMAIN updates THEN updates.status ELSE row.status,
    approval  |-> IF "approvalStatus" \in DOMAIN updates THEN updates.approvalStatus ELSE row.approval,
    facebook  |-> IF "facebook" \in DOMAIN updates THEN updates.facebook ELSE row.facebook,
    linkedin  |-> IF "linkedin" \in DOMAIN updates THEN updates.linkedin ELSE row.linkedin,
    date      |-> IF "scheduleDate" \in DOMAIN updates THEN updates.scheduleDate ELSE row.date,
    time      |-> IF "scheduleTime" \in DOMAIN updates THEN updates.scheduleTime ELSE row.time,
    results   |-> IF "results" \in DOMAIN updates THEN updates.results ELSE row.results,
    deleted   |-> row.deleted,
    mediaUrl  |-> row.mediaUrl,
    mediaItems |-> row.mediaItems ]

\* The media_url column (0: NULL): createPost and updatePost store the post
\* object's mediaUrl.
setMediaUrl(row, post) ==
  IF "mediaUrl" \in DOMAIN post THEN [row EXCEPT !.mediaUrl = post.mediaUrl] ELSE row

\* UPDATE posts ... WHERE id = $n : no row, no effect.
StoreUpdate(tbl, id, updates) ==
  IF id \in DOMAIN tbl
    THEN [tbl EXCEPT ![id] = setMediaUrl(updatePost(tbl[id], updates), updates)]
    ELSE tbl

\* INSERT INTO posts.
StoreCreate(tbl, id, post) ==
  [i \in DOMAIN tbl \cup {id} |-> IF i = id THEN setMediaUrl(createPost(post), post) ELSE tbl[i]]

\* database-pg deletePost: DELETE FROM posts WHERE id = $1.
deletePost(tbl, id) == [i \in DOMAIN tbl \ {id} |-> tbl[i]]

\* "existingPost ? updatePost(postId, post) : createPost(post)"
Upsert(tbl, id, post) ==
  IF id \in DOMAIN tbl THEN StoreUpdate(tbl, id, post) ELSE StoreCreate(tbl, id, post)

\* createPostMedia / updatePostMedia: the post's post_media rows become the
\* uploaded items.
updatePostMedia(tbl, id, items) == [tbl EXCEPT ![id].mediaItems = items]

\* "if (uploadedMediaItems.length > 0) updatePostMedia(postId, uploadedMediaItems)"
StoreMedia(tbl, id, items) == IF Len(items) > 0 THEN updatePostMedia(tbl, id, items) ELSE tbl

\* getPostMedia: the post's post_media rows.
getPostMedia(row) == row.mediaItems

\* Record of one run of a handler or of the cron callback: the post it was
\* about and that post's status when it started, the HTTP status returned,
\* the adapter calls made and the notifications sent.
Last(op, id, resp, calls, mails) ==
  [op |-> op, id |-> id, resp |-> resp, calls |-> calls, mails |-> mails,
   was |-> IF id \in DOMAIN posts THEN posts[id].status ELSE "none"]

\* No operation is running: the event loop is ready for the next request or timer.
Idle ==
  [op |-> "idle", id |-> "p1", resp |-> 200, calls |-> << >>, mails |-> << >>,
   was |-> "none"]

\* A cron callback that has not fired yet.
NotFired ==
  [pc |-> "idle", rows |-> << >>, read |-> << >>, clock |-> <<1, 0>>, calls |-> << >>,
   updates |-> [status |-> "failed"]]

\* A request that has not arrived yet.
NoRequest ==
  [pc |-> "idle", op |-> "none", id |-> "p1", read |-> << >>, calls |-> << >>,
   updates |-> [status |-> "failed"], resp |-> 0]

Init ==
  /\ posts = << >>
  /\ objects = << >>
  /\ now = <<1, 0>>
  /\ last = Idle
  /\ running = [k \in 1..MaxTicks |-> NotFired]
  /\ inflight = [r \in 1..MaxRequests |-> NoRequest]
  /\ usePostgres = TRUE

\* ---------------------------------------------------------------- handlers
\* What a handler leaves behind and answers.
Outcome(tbl, objs, resp, calls, mails) ==
  [posts |-> tbl, objects |-> objs, resp |-> resp, calls |-> calls, mails |-> mails]

\* The handler as a step of the server: it runs when no other operation does,
\* within the bucket's bound.
Handle(op, id, o) ==
  /\ last = Idle
  /\ Len(o.objects) <= MaxObjects
  /\ posts' = o.posts
  /\ objects' = o.objects
  /\ last' = Last(op, id, o.resp, o.calls, o.mails)
  /\ UNCHANGED <<now, running, inflight, usePostgres>>

\* POST /api/drafts
SubmitDraftOutcome(tbl, objs, id, fb, li, d, t, appr, m, st) ==
  LET up == UploadBody(objs, m, st)
      post == [ status |-> "draft", approvalStatus |-> appr, facebook |-> fb, linkedin |-> li,
                scheduleDate |-> d, scheduleTime |-> t, mediaUrl |-> up.mediaUrl ]
  IN IF ~up.ok THEN Outcome(tbl, objs, 500, << >>, << >>)
     ELSE Outcome(StoreMedia(Upsert(tbl, id, post), id, up.items), up.objects, 200, << >>, << >>)

SubmitDraft(id, fb, li, d, t, appr, m, st) ==
  Handle("SubmitDraft", id, SubmitDraftOutcome(posts, objects, id, fb, li, d, t, appr, m, st))

\* POST /api/schedule
ScheduleOutcome(tbl, objs, id, fb, li, d, t, appr, m, st) ==
  LET up == UploadBody(objs, m, st)
      post == [ status |-> "scheduled", approvalStatus |-> appr, facebook |-> fb, linkedin |-> li,
                scheduleDate |-> d, scheduleTime |-> t, mediaUrl |-> up.mediaUrl ]
  IN IF ~up.ok THEN Outcome(tbl, objs, 500, << >>, << >>)
     ELSE Outcome(StoreMedia(Upsert(tbl, id, post), id, up.items), up.objects, 200, << >>, << >>)

Schedule(id, fb, li, d, t, appr, m, st) ==
  Handle("Schedule", id, ScheduleOutcome(posts, objects, id, fb, li, d, t, appr, m, st))

\* POST /api/posts/send-for-approval
\* lookupFails: pgDb.getUser throws while the recipients are looked up.
SendForApprovalOutcome(tbl, objs, id, fb, li, d, t, approverId, userId, note, m, st, lookupFails) ==
  LET up == UploadForApproval(objs, m, st)
      post == [ status |-> "pending_approval",
                approvalStatus |-> ApprovalRequest(approverId, userId, note),
                facebook |-> fb, linkedin |-> li,
                scheduleDate |-> d, scheduleTime |-> t, mediaUrl |-> up.mediaUrl ]
      stored == StoreMedia(Upsert(tbl, id, post), id, up.items)
  IN IF approverId = "none" THEN Outcome(tbl, objs, 400, << >>, << >>)
     ELSE IF ~up.ok THEN Outcome(tbl, up.objects, 500, << >>, << >>)
     ELSE IF lookupFails THEN Outcome(stored, up.objects, 500, << >>, << >>)
     ELSE Outcome(stored, up.objects, 200, << >>,
                  <<Mail(id, "approval_request"), Mail(id, "collaborator_confirmation")>>)

SendForApproval(id, fb, li, d, t, approverId, userId, note, m, st, lookupFails) ==
  Handle("SendForApproval", id,
         SendForApprovalOutcome(posts, objects, id, fb, li, d, t, approverId, userId, note,
                                m, st, lookupFails))

\* ------------------------------------------------------- publish, both ways
\* What the platform answers to an adapter call, whatever the post carries.
FacebookAnswer(env) == [ok |-> postToFacebook(env, NoPostData).ok,
                        msg |-> postToFacebook(env, NoPostData).msg]
LinkedInAnswer(env) == [ok |-> postToLinkedIn(env, NoPostData).ok,
                        msg |-> postToLinkedIn(env, NoPostData).msg]

\* The result entry a try/catch around an adapter stores: the response, or
\* { error: message }.
Entry(enabled, r) == IF ~enabled THEN "absent" ELSE IF r.ok THEN "ok" ELSE r.msg

\* The post object a stored post is published from: its post_media rows
\* downloaded, its media_url as the legacy fallback.
Loaded(row, objs, st) == WithMedia("none", getPostMedia(row), row.mediaUrl, objs, st)

\* Late-approval publish (approve handler): each adapter in its own try/catch.
ApproveCalls(id, row, pd, fbEnv, liEnv) ==
  (IF row.facebook THEN <<Call(id, "facebook", postToFacebook(fbEnv, pd))>> ELSE << >>)
    \o (IF row.linkedin THEN <<Call(id, "linkedin", postToLinkedIn(liEnv, pd))>> ELSE << >>)

ApproveResults(row, fbEnv, liEnv) ==
  [ facebook |-> Entry(row.facebook, FacebookAnswer(fbEnv)),
    linkedin |-> Entry(row.linkedin, LinkedInAnswer(liEnv)) ]

\* fbSuccess || liSuccess
AnySuccess(row, results) ==
  \/ row.facebook /\ results.facebook = "ok"
  \/ row.linkedin /\ results.linkedin = "ok"

\* { ...post.approvalStatus, approved: true, approvedAt }
UpdatedApprovalStatus(row) == [row.approval EXCEPT !.present = TRUE, !.approved = "true"]

\* post.approvalStatus?.approverId
StoredApprover(row) == IF row.approval.present THEN row.approval.approverId ELSE "none"

\* Variant of the 403 guard that lets a post without approval metadata through.
NotTheApproverIfRecorded(row, approverId) ==
  row.approval.present /\ row.approval.approverId # approverId

\* if (post.approvalStatus?.approverId !== approverId) return 403
NotTheApprover(row, approverId) == StoredApprover(row) # approverId

\* Scheduler publish (cron job): the adapters share one try block, so the
\* first throw skips the rest.
FbThrows(row, fbEnv) == row.facebook /\ ~FacebookAnswer(fbEnv).ok
LiThrows(row, liEnv) == row.linkedin /\ ~LinkedInAnswer(liEnv).ok

CronCalls(id, row, pd, fbEnv, liEnv) ==
  (IF row.facebook THEN <<Call(id, "facebook", postToFacebook(fbEnv, pd))>> ELSE << >>)
    \o (IF row.linkedin /\ ~FbThrows(row, fbEnv)
          THEN <<Call(id, "linkedin", postToLinkedIn(liEnv, pd))>> ELSE << >>)

CronUpdates(row, fbEnv, liEnv) ==
  IF FbThrows(row, fbEnv) \/ LiThrows(row, liEnv)
    THEN [ status |-> "failed" ]
    ELSE [ status |-> "published",
           results |-> [ facebook |-> Entry(row.facebook, FacebookAnswer(fbEnv)),
                         linkedin |-> Entry(row.linkedin, LinkedInAnswer(liEnv)) ] ]

\* Variant of the guards: only an explicit rejection is skipped.
CronSkipsRejectedOnly(row) ==
  row.approval.present /\ row.approval.approved = "false"

\* The two approval guards of the cron loop.
CronSkips(row) ==
  \/ row.approval.present /\ row.approval.approved = "false"
  \/ row.approval.present /\ row.approval.approved # "true"

\* Variant of the due test: a post due this very minute waits for the next one.
CronDueStrict(row, clock) ==
  DateLeq(row.date, row.time, clock[1], clock[2]) /\ <<row.date, row.time>> # clock

\* scheduledDateTime <= limaTime
CronDue(row, clock) == DateLeq(row.date, row.time, clock[1], clock[2])

CronPublishes(row, clock) == ~CronSkips(row) /\ CronDue(row, clock)

\* Variant of the query that also picks failed posts up again.
ScheduledOrFailedRows(tbl) ==
  {id \in DOMAIN tbl : tbl[id].status \in {"scheduled", "failed"} /\ ~tbl[id].deleted}

\* Variant of the query without the tombstone filter.
ScheduledRowsWithTombstones(tbl) == {id \in DOMAIN tbl : tbl[id].status = "scheduled"}

\* SELECT * FROM posts WHERE status = 'scheduled' AND deleted_at IS NULL
ScheduledRows(tbl) == {id \in DOMAIN tbl : tbl[id].status = "scheduled" /\ ~tbl[id].deleted}

\* GET /api/posts/pending-approval: SELECT ... WHERE status = 'pending_approval'
\* AND approval_status->>'approverId' = $1 AND deleted_at IS NULL
PendingApprovalRows(tbl, userId) ==
  {id \in DOMAIN tbl :
     /\ tbl[id].status = "pending_approval"
     /\ tbl[id].approval.present /\ tbl[id].approval.approverId = userId
     /\ ~tbl[id].deleted}

\* Variant of the query without its ORDER BY: the rows in any order.
UnorderedRows(tbl) ==
  LET ids == ScheduledRows(tbl)
      n == Cardinality(ids)
  IN {s \in [1..n -> ids] : \A i, j \in 1..n : i # j => s[i] # s[j]}

\* ... ORDER BY schedule_date, schedule_time (ties in any order)
OrderedRows(tbl) ==
  LET ids == ScheduledRows(tbl)
      n == Cardinality(ids)
  IN {s \in [1..n -> ids] :
        /\ \A i, j \in 1..n : i # j => s[i] # s[j]
        /\ \A i, j \in 1..n : i < j =>
             StrLeq(tbl[s[i]].date, tbl[s[i]].time, tbl[s[j]].date, tbl[s[j]].time)}

RECURSIVE TickCalls(_, _, _, _, _)
TickCalls(order, tbl, objs, clock, env) ==
  IF order = << >> THEN << >>
  ELSE LET id == Head(order)
       IN (IF CronPublishes(tbl[id], clock)
             THEN CronCalls(id, tbl[id], Loaded(tbl[id], objs, env[id].dl),
                            env[id].fb, env[id].li)
             ELSE << >>)
            \o TickCalls(Tail(order), tbl, objs, clock, env)

\* sendPostPublishedEmail after each post the tick has stored as published.
RECURSIVE TickMails(_, _, _, _)
TickMails(order, tbl, clock, env) ==
  IF order = << >> THEN << >>
  ELSE LET id == Head(order)
           row == tbl[id]
       IN (IF CronPublishes(row, clock)
                /\ ~(FbThrows(row, env[id].fb) \/ LiThrows(row, env[id].li))
             THEN <<Mail(id, "post_published")>> ELSE << >>)
            \o TickMails(Tail(order), tbl, clock, env)

\* Variant of the catch block that does what its comment says ("fall back to
\* scheduled status if publishing fails").
ApproveCatchFallsBack(appr) == [ status |-> "scheduled", approvalStatus |-> appr ]

\* catch (publishError) of the late-approval publish.
ApproveCatch(appr) == [ status |-> "failed", approvalStatus |-> appr ]

\* scheduledDate || post.scheduleDate, scheduledTime || post.scheduleTime
\* (od = 0, ot = -1: the body carries no override).
FinalScheduleDate(row, od) == IF od # 0 THEN od ELSE row.date

\* Variant that ignores the approver's override time.
FinalScheduleTimeStored(row, ot) == row.time

FinalScheduleTime(row, ot) == IF ot # -1 THEN ot ELSE row.time

\* shouldPublishNow = scheduledStr <= limaStr
ShouldPublishNow(row, od, ot, clock) ==
  StrLeq(FinalScheduleDate(row, od), FinalScheduleTime(row, ot), clock[1], clock[2])

\* pgDb.getUser(post.approvalStatus.requestedBy) throws: the store fails, or
\* approvalStatus is null.
LookupThrows(row, lookupFails) == lookupFails \/ ~row.approval.present

\* The posts table the approve handler leaves behind.
ApproveStore(tbl, id, approverId, od, ot, clock, fbEnv, liEnv, lookupFails) ==
  IF id \notin DOMAIN tbl THEN tbl
  ELSE IF NotTheApprover(tbl[id], approverId) THEN tbl
  ELSE
    LET row == tbl[id]
        appr == UpdatedApprovalStatus(row)
        results == ApproveResults(row, fbEnv, liEnv)
        published == StoreUpdate(tbl, id,
                       [ status |-> IF AnySuccess(row, results) THEN "published" ELSE "failed",
                         results |-> results, approvalStatus |-> appr ])
    IN IF ShouldPublishNow(row, od, ot, clock)
         THEN IF LookupThrows(row, lookupFails)
                THEN StoreUpdate(published, id, ApproveCatch(appr))
                ELSE published
         ELSE StoreUpdate(tbl, id,
                [ status |-> "scheduled", scheduleDate |-> FinalScheduleDate(row, od),
                  scheduleTime |-> FinalScheduleTime(row, ot), approvalStatus |-> appr ])

\* The notifications of the approve handler: the decision mail, then the
\* published mail when the late publish had a success.
ApproveMails(id, late, anySuccess, throws) ==
  IF throws THEN << >>
  ELSE <<Mail(id, "approval_decision")>>
         \o (IF late /\ anySuccess THEN <<Mail(id, "post_published")>> ELSE << >>)

\* What the approve handler answers and does besides the posts table: the HTTP
\* status, the adapter calls and the notifications.
ApproveReply(tbl, objs, id, approverId, od, ot, clock, fbEnv, liEnv, dl, lookupFails) ==
  IF id \notin DOMAIN tbl THEN [resp |-> 404, calls |-> << >>, mails |-> << >>]
  ELSE IF NotTheApprover(tbl[id], approverId)
    THEN [resp |-> 403, calls |-> << >>, mails |-> << >>]
  ELSE
    LET row == tbl[id]
        late == ShouldPublishNow(row, od, ot, clock)
        anySuccess == AnySuccess(row, ApproveResults(row, fbEnv, liEnv))
        throws == LookupThrows(row, lookupFails)
    IN [ resp  |-> IF throws \/ (late /\ ~anySuccess) THEN 500 ELSE 200,
         calls |-> IF late THEN ApproveCalls(id, row, Loaded(row, objs, dl), fbEnv, liEnv)
                           ELSE << >>,
         mails |-> ApproveMails(id, late, anySuccess, throws) ]

\* POST /api/posts/approve
Approve(id, approverId, od, ot, fbEnv, liEnv, dl, lookupFails) ==
  LET reply == ApproveReply(posts, objects, id, approverId, od, ot, now, fbEnv, liEnv, dl,
                            lookupFails)
  IN /\ last = Idle
     /\ posts' = ApproveStore(posts, id, approverId, od, ot, now, fbEnv, liEnv, lookupFails)
     /\ last' = Last("Approve", id, reply.resp, reply.calls, reply.mails)
     /\ UNCHANGED <<objects, now, running, inflight, usePostgres>>

\* The posts table the reject handler leaves behind: the recipients are
\* looked up before the row is deleted.
RejectStore(tbl, id, approverId, lookupFails) ==
  IF id \notin DOMAIN tbl THEN tbl
  ELSE IF NotTheApprover(tbl[id], approverId) THEN tbl
  ELSE IF LookupThrows(tbl[id], lookupFails) THEN tbl
  ELSE deletePost(tbl, id)

\* The HTTP status and the notifications of the reject handler.
RejectReply(tbl, id, approverId, lookupFails) ==
  IF id \notin DOMAIN tbl THEN [resp |-> 404, calls |-> << >>, mails |-> << >>]
  ELSE IF NotTheApprover(tbl[id], approverId)
    THEN [resp |-> 403, calls |-> << >>, mails |-> << >>]
  ELSE IF LookupThrows(tbl[id], lookupFails)
    THEN [resp |-> 500, calls |-> << >>, mails |-> << >>]
  ELSE [resp |-> 200, calls |-> << >>, mails |-> <<Mail(id, "approval_decision")>>]

\* The bucket the reject handler leaves behind: after the row is deleted,
\* "if (post.mediaUrl) storage.deleteMedia(post.mediaUrl)" in a try/catch.
RejectObjects(tbl, objs, id, approverId, lookupFails, st) ==
  IF id \in DOMAIN tbl /\ id \notin DOMAIN RejectStore(tbl, id, approverId, lookupFails)
       /\ tbl[id].mediaUrl # 0
    THEN deleteMedia(objs, tbl[id].mediaUrl, st)
    ELSE objs

\* POST /api/posts/reject
Reject(id, approverId, lookupFails, st) ==
  LET reply == RejectReply(posts, id, approverId, lookupFails)
  IN /\ last = Idle
     /\ posts' = RejectStore(posts, id, approverId, lookupFails)
     /\ objects' = RejectObjects(posts, objects, id, approverId, lookupFails, st)
     /\ last' = Last("Reject", id, reply.resp, reply.calls, reply.mails)
     /\ UNCHANGED <<now, running, inflight, usePostgres>>

\* POST /api/post-now: upload, download again for the adapters, publish
\* (the adapters are not in a try/catch of their own), then store.
PublishNowOutcome(tbl, objs, id, fb, li, d, t, m, st, fbEnv, liEnv) ==
  LET up == UploadBody(objs, m, st)
      pd == WithMedia(m.media, up.items, 0, up.objects, st)
      fbThrows == fb /\ ~FacebookAnswer(fbEnv).ok
      liThrows == li /\ ~LinkedInAnswer(liEnv).ok
      calls == (IF fb THEN <<Call(id, "facebook", postToFacebook(fbEnv, pd))>> ELSE << >>)
                 \o (IF li /\ ~fbThrows
                       THEN <<Call(id, "linkedin", postToLinkedIn(liEnv, pd))>> ELSE << >>)
      post == [ status |-> "published", facebook |-> fb, linkedin |-> li,
                scheduleDate |-> d, scheduleTime |-> t, mediaUrl |-> up.mediaUrl,
                results |-> [ facebook |-> Entry(fb, FacebookAnswer(fbEnv)),
                              linkedin |-> Entry(li, LinkedInAnswer(liEnv)) ] ]
  IN IF ~up.ok THEN Outcome(tbl, objs, 500, << >>, << >>)
     ELSE IF fbThrows \/ liThrows THEN Outcome(tbl, up.objects, 500, calls, << >>)
     ELSE Outcome(StoreMedia(Upsert(tbl, id, post), id, up.items), up.objects, 200, calls,
                  <<Mail(id, "post_published")>>)

PublishNow(id, fb, li, d, t, m, st, fbEnv, liEnv) ==
  Handle("PublishNow", id,
         PublishNowOutcome(posts, objects, id, fb, li, d, t, m, st, fbEnv, liEnv))

\* The urls of a post's post_media rows.
MediaUrls(row) == [i \in 1..Len(row.mediaItems) |-> row.mediaItems[i].url]

\* The bucket DELETE /api/posts/:postId leaves behind: every post_media url
\* through deleteMultipleMedia, else the legacy media_url.
DeletePostObjects(tbl, objs, id, st) ==
  IF id \notin DOMAIN tbl THEN objs
  ELSE IF Len(tbl[id].mediaItems) > 0 THEN deleteMultipleMedia(objs, MediaUrls(tbl[id]), st)
  ELSE IF tbl[id].mediaUrl # 0 THEN deleteMedia(objs, tbl[id].mediaUrl, st)
  ELSE objs

\* DELETE /api/posts/:postId
DeletePost(id, st) ==
  /\ last = Idle
  /\ posts' = deletePost(posts, id)
  /\ objects' = DeletePostObjects(posts, objects, id, st)
  /\ last' = Last("DeletePost", id, 200, << >>, << >>)
  /\ UNCHANGED <<now, running, inflight, usePostgres>>

\* softDeletePost: UPDATE posts SET deleted_at = now.
softDeletePost(row) == [row EXCEPT !.deleted = TRUE]

\* DELETE /api/admin/delete-user: every post of the removed user is tombstoned.
DeleteUser ==
  /\ last = Idle
  /\ DOMAIN posts # {}
  /\ posts' = [id \in DOMAIN posts |-> softDeletePost(posts[id])]
  /\ last' = Last("DeleteUser", "p1", 200, << >>, << >>)
  /\ UNCHANGED <<objects, now, running, inflight, usePostgres>>

\* The posts table one scheduler tick leaves behind.
TickStore(tbl, clock, env) ==
  [id \in DOMAIN tbl |->
     IF id \in ScheduledRows(tbl) /\ CronPublishes(tbl[id], clock)
       THEN updatePost(tbl[id], CronUpdates(tbl[id], env[id].fb, env[id].li))
       ELSE tbl[id]]

\* cron.schedule('* * * * *'): one scheduler tick.
Tick(order, env) ==
  /\ last = Idle
  /\ order \in OrderedRows(posts)
  /\ posts' = TickStore(posts, now, env)
  /\ last' = Last("Tick", "p1", 200, TickCalls(order, posts, objects, now, env),
                  TickMails(order, posts, now, env))
  /\ UNCHANGED <<objects, now, running, inflight, usePostgres>>

\* The minute-resolution business clock moves on.
ClockTick ==
  /\ last = Idle
  /\ now[2] < LastTime \/ now[1] < MaxDate
  /\ now' = IF now[2] < LastTime THEN <<now[1], now[2] + 1>> ELSE <<now[1] + 1, 0>>
  /\ UNCHANGED <<posts, objects, last, running, inflight, usePostgres>>

\* The handler has returned; the event loop takes the next request or timer
\* (handlers and the cron callback run one at a time here).
Return ==
  /\ last # Idle
  /\ last' = Idle
  /\ UNCHANGED <<posts, objects, now, running, inflight, usePostgres>>

\* The inputs an operation reads: a value it never looks at is not enumerated.
Relevant(S, used, unused) == IF used THEN S ELSE {unused}

ApproveAccepted(id, a) == Exists(id) /\ ~NotTheApprover(posts[id], a)

ApproveLate(id, a, od, ot) ==
  ApproveAccepted(id, a) /\ ShouldPublishNow(posts[id], od, ot, now)

\* The post has something in storage to download or delete.
HasMedia(id) == Exists(id) /\ (Len(posts[id].mediaItems) > 0 \/ posts[id].mediaUrl # 0)

\* What the platforms and the storage do for each post during one tick.
TickEnvs ==
  {env \in [PostIds -> [fb : Envs, li : Envs, dl : StorageEnvs]] :
     \A id \in PostIds :
       LET pub == id \in ScheduledRows(posts) /\ CronPublishes(posts[id], now)
       IN /\ env[id].fb \in Relevant(Envs, pub /\ posts[id].facebook, "ok")
          /\ env[id].li \in Relevant(Envs, pub /\ posts[id].linkedin
                                             /\ ~FbThrows(posts[id], env[id].fb), "ok")
          /\ env[id].dl \in Relevant(StorageEnvs, pub /\ HasMedia(id), "ok")}

\* Requests without media: the post lifecycle over dates, times and approvals.
Next ==
  \/ \E id \in PostIds, fb \in BOOLEAN, li \in BOOLEAN, d \in Dates, t \in Times,
        appr \in ApprovalInputs : SubmitDraft(id, fb, li, d, t, appr, NoMedia, "ok")
  \/ \E id \in PostIds, fb \in BOOLEAN, li \in BOOLEAN, d \in Dates, t \in Times,
        appr \in ApprovalInputs : Schedule(id, fb, li, d, t, appr, NoMedia, "ok")
  \/ \E id \in PostIds, a \in {"a1", "none"} :
       \E fb \in Relevant(BOOLEAN, a # "none", FALSE), li \in Relevant(BOOLEAN, a # "none", FALSE),
          d \in Relevant(Dates, a # "none", 1), t \in Relevant(Times, a # "none", 0),
          u \in UserIds, note \in Relevant(Notes, a # "none", "none"),
          lookupFails \in Relevant(BOOLEAN, a # "none", FALSE) :
            SendForApproval(id, fb, li, d, t, a, u, note, NoMedia, "ok", lookupFails)
  \/ \E id \in PostIds, a \in RequestApproverIds :
       \E od \in Relevant({0} \cup Dates, ApproveAccepted(id, a), 0),
          ot \in Relevant({-1} \cup Times, ApproveAccepted(id, a), -1),
          lookupFails \in Relevant(BOOLEAN, ApproveAccepted(id, a), FALSE) :
         \E fbEnv \in Relevant(Envs, ApproveLate(id, a, od, ot) /\ posts[id].facebook, "ok"),
            liEnv \in Relevant(Envs, ApproveLate(id, a, od, ot) /\ posts[id].linkedin, "ok") :
              Approve(id, a, od, ot, fbEnv, liEnv, "ok", lookupFails)
  \/ \E id \in PostIds, a \in RequestApproverIds :
       \E lookupFails \in Relevant(BOOLEAN, ApproveAccepted(id, a), FALSE) :
          Reject(id, a, lookupFails, "ok")
  \/ \E id \in PostIds, fb \in BOOLEAN, li \in BOOLEAN, d \in Dates, t \in Times :
       \E fbEnv \in Relevant(Envs, fb, "ok") :
         \E liEnv \in Relevant(Envs, li /\ FacebookAnswer(fbEnv).ok, "ok") :
            PublishNow(id, fb, li, d, t, NoMedia, "ok", fbEnv, liEnv)
  \/ \E id \in PostIds : DeletePost(id, "ok")
  \/ DeleteUser
  \/ \E env \in TickEnvs : \E order \in OrderedRows(posts) : Tick(order, env)
  \/ ClockTick
  \/ Return

Spec == Init /\ [][Next]_vars

\* Whether a request body carries media.
Carries(m) == m # NoMedia

\* Requests with media for posts that target both platforms, at one date and
\* time that is due: uploads, downloads, what the adapters are handed, and
\* what is deleted from the bucket.
MediaNext ==
  \/ \E id \in PostIds, m \in BodyMedia :
       \E st \in Relevant(StorageEnvs, Carries(m), "ok") :
          Schedule(id, TRUE, TRUE, 1, 0, NoApproval, m, st)
  \/ \E id \in PostIds, a \in {"a1", "none"}, m \in BodyMedia :
       \E st \in Relevant(StorageEnvs, Carries(m) /\ a # "none", "ok") :
          SendForApproval(id, TRUE, TRUE, 1, 0, a, "u1", "none", m, st, FALSE)
  \/ \E id \in PostIds, a \in {"a1"} :
       \E fbEnv \in Relevant(Envs, ApproveAccepted(id, a), "ok") :
         \E liEnv \in Relevant(Envs, ApproveAccepted(id, a), "ok"),
            dl \in Relevant(StorageEnvs, ApproveAccepted(id, a) /\ HasMedia(id), "ok") :
              Approve(id, a, 0, -1, fbEnv, liEnv, dl, FALSE)
  \/ \E id \in PostIds, a \in {"a1"} :
       \E st \in Relevant(StorageEnvs, ApproveAccepted(id, a) /\ posts[id].mediaUrl # 0, "ok") :
          Reject(id, a, FALSE, st)
  \/ \E id \in PostIds, m \in BodyMedia, fbEnv \in Envs :
       \E st \in Relevant(StorageEnvs, Carries(m), "ok"),
          liEnv \in Relevant(Envs, FacebookAnswer(fbEnv).ok, "ok") :
            PublishNow(id, TRUE, TRUE, 1, 0, m, st, fbEnv, liEnv)
  \/ \E id \in PostIds : \E st \in Relevant(StorageEnvs, HasMedia(id), "ok") : DeletePost(id, st)
  \/ \E env \in TickEnvs : \E order \in OrderedRows(posts) : Tick(order, env)
  \/ Return

MediaSpec == Init /\ [][MediaNext]_vars

\* -------------------------------------------------- the cron callback, by await
\* node-cron fires the callback every minute whether or not an earlier run
\* has returned, and the callback holds no lock: a run is a sequence of steps
\* between its awaits, and the steps of several runs interleave.
\* Step 1, the query: the run reads the clock and the scheduled rows. The
\* callback fires once a minute, so no other run has read the same minute.
TickQuery(k, order) ==
  /\ running[k].pc = "idle"
  /\ \A j \in 1..MaxTicks : running[j].pc # "idle" => running[j].clock # now
  /\ order \in OrderedRows(posts)
  /\ running' = [running EXCEPT ![k] =
                   [NotFired EXCEPT !.pc = "loop", !.rows = order, !.read = posts,
                                    !.clock = now]]
  /\ UNCHANGED <<posts, objects, now, last, inflight, usePostgres>>

\* Step 2, for the next row of the result: the guards and the due test on the
\* row as it was read, then the adapter calls, which the run awaits.
TickPublish(k, fbEnv, liEnv) ==
  /\ running[k].pc = "loop"
  /\ running[k].rows # << >>
  /\ LET id == Head(running[k].rows)
         row == running[k].read[id]
     IN running' = [running EXCEPT ![k] =
          IF CronPublishes(row, running[k].clock)
            THEN [@ EXCEPT !.pc = "awaiting",
                           !.calls = @ \o CronCalls(id, row, NoPostData, fbEnv, liEnv),
                           !.updates = CronUpdates(row, fbEnv, liEnv)]
            ELSE [@ EXCEPT !.rows = Tail(@)]]
  /\ UNCHANGED <<posts, objects, now, last, inflight, usePostgres>>

\* What the Post Store does with the updatePost calls of one post: it answers,
\* its first call throws, or every call throws.
StoreEnvs == {"ok", "first_write_fails", "unavailable"}

\* The writes of the cron loop for one post: updatePost 'published' at the end
\* of the try block, whose throw leads to the catch block; updatePost 'failed'
\* in the catch block, whose throw leaves the for loop for the outer catch.
TickWrite(tbl, id, updates, db) ==
  IF db = "ok" THEN [posts |-> StoreUpdate(tbl, id, updates), aborted |-> FALSE]
  ELSE IF db = "first_write_fails" /\ updates.status = "published"
    THEN [posts |-> StoreUpdate(tbl, id, [status |-> "failed"]), aborted |-> FALSE]
  ELSE [posts |-> tbl, aborted |-> TRUE]

\* Step 3, the adapters have answered: updatePost with published or failed,
\* then on to the next row; a throw out of the catch block ends the run with
\* the rest of the result unread.
TickStoreResult(k, db) ==
  /\ running[k].pc = "awaiting"
  /\ LET w == TickWrite(posts, Head(running[k].rows), running[k].updates, db)
     IN /\ posts' = w.posts
        /\ running' = [running EXCEPT ![k] =
                         [@ EXCEPT !.pc = IF w.aborted THEN "done" ELSE "loop",
                                   !.rows = Tail(@)]]
  /\ UNCHANGED <<objects, now, last, inflight, usePostgres>>

\* Step 4, the result is exhausted: the run returns.
TickReturn(k) ==
  /\ running[k].pc = "loop"
  /\ running[k].rows = << >>
  /\ running' = [running EXCEPT ![k] = [@ EXCEPT !.pc = "done"]]
  /\ UNCHANGED <<posts, objects, now, last, inflight, usePostgres>>

\* Each post is scheduled once, without media; cron callbacks fire while
\* earlier ones may still be awaiting a platform.
OverlapNext ==
  \/ \E id \in PostIds, fb \in BOOLEAN, li \in BOOLEAN, d \in Dates, t \in Times :
       ~Exists(id) /\ Schedule(id, fb, li, d, t, NoApproval, NoMedia, "ok")
  \/ \E k \in 1..MaxTicks : \E order \in OrderedRows(posts) : TickQuery(k, order)
  \/ \E k \in 1..MaxTicks, fbEnv \in Envs, liEnv \in Envs : TickPublish(k, fbEnv, liEnv)
  \/ \E k \in 1..MaxTicks : TickStoreResult(k, "ok")
  \/ \E k \in 1..MaxTicks : TickReturn(k)
  \/ ClockTick
  \/ Return

OverlapSpec == Init /\ [][OverlapNext]_vars

\* The posts of a backlog.
QueueIds == {"p1", "p2"}

\* A backlog of posts scheduled once each, without media, for Facebook and
\* possibly LinkedIn, some waiting for an approver; cron callbacks run by
\* await over several rows while the Post Store may fail.
BatchNext ==
  \/ \E id \in QueueIds, li \in BOOLEAN, t \in Times,
        appr \in {NoApproval, ApprovalObj("a1", "null")} :
       ~Exists(id) /\ Schedule(id, TRUE, li, 1, t, appr, NoMedia, "ok")
  \/ \E k \in 1..MaxTicks : \E order \in OrderedRows(posts) : TickQuery(k, order)
  \/ \E k \in 1..MaxTicks, fbEnv \in Envs, liEnv \in Envs : TickPublish(k, fbEnv, liEnv)
  \/ \E k \in 1..MaxTicks, db \in StoreEnvs : TickStoreResult(k, db)
  \/ \E k \in 1..MaxTicks : TickReturn(k)
  \/ ClockTick
  \/ Return

BatchSpec == Init /\ [][BatchNext]_vars

\* ---------------------------------------------- request handlers, by await
\* A handler runs until its next await; while it waits for the store or for a
\* platform, other handlers and cron callbacks take their steps.
\* A request that has been answered.
Responded(op, id, resp) == [NoRequest EXCEPT !.pc = "done", !.op = op, !.id = id, !.resp = resp]

\* approve, step 1: getPost has answered; 404 and 403 return at once. When the
\* due time is still ahead the single updatePost follows in the same stretch;
\* else the handler goes on to publish from the row it has read.
ApproveRead(r, id, approverId) ==
  /\ inflight[r].pc = "idle"
  /\ IF ~Exists(id)
       THEN /\ inflight' = [inflight EXCEPT ![r] = Responded("Approve", id, 404)]
            /\ UNCHANGED posts
     ELSE IF NotTheApprover(posts[id], approverId)
       THEN /\ inflight' = [inflight EXCEPT ![r] = Responded("Approve", id, 403)]
            /\ UNCHANGED posts
     ELSE IF ShouldPublishNow(posts[id], 0, -1, now)
       THEN /\ inflight' = [inflight EXCEPT ![r] =
                              [NoRequest EXCEPT !.op = "Approve", !.id = id, !.pc = "late",
                                                !.read = posts[id]]]
            /\ UNCHANGED posts
     ELSE /\ inflight' = [inflight EXCEPT ![r] = Responded("Approve", id, 200)]
          /\ posts' = ApproveStore(posts, id, approverId, 0, -1, now, "ok", "ok", FALSE)
  /\ UNCHANGED <<objects, now, last, running, usePostgres>>

\* approve, step 2: the adapters are called for the row as it was read, each
\* in its own try/catch, and the handler awaits them.
ApprovePublish(r, fbEnv, liEnv) ==
  /\ inflight[r].pc = "late"
  /\ LET id == inflight[r].id
         row == inflight[r].read
         results == ApproveResults(row, fbEnv, liEnv)
     IN inflight' = [inflight EXCEPT ![r] =
          [@ EXCEPT !.pc = "awaiting",
                    !.calls = ApproveCalls(id, row, NoPostData, fbEnv, liEnv),
                    !.updates = [ status |-> IF AnySuccess(row, results) THEN "published"
                                                                        ELSE "failed",
                                  results |-> results,
                                  approvalStatus |-> UpdatedApprovalStatus(row) ]]]
  /\ UNCHANGED <<posts, objects, now, last, running, usePostgres>>

\* approve, step 3: the adapters have answered; updatePost with the outcome.
ApproveStoreResult(r) ==
  /\ inflight[r].pc = "awaiting" /\ inflight[r].op = "Approve"
  /\ posts' = StoreUpdate(posts, inflight[r].id, inflight[r].updates)
  /\ inflight' = [inflight EXCEPT ![r] =
                    Responded("Approve", inflight[r].id,
                              IF inflight[r].updates.status = "published" THEN 200 ELSE 500)]
  /\ UNCHANGED <<objects, now, last, running, usePostgres>>

\* post-now without media, step 1: the adapters are called one after the
\* other; a throw ends the request with 500.
PostNowPublish(r, id, fb, li, fbEnv, liEnv) ==
  /\ inflight[r].pc = "idle"
  /\ LET o == PublishNowOutcome(posts, objects, id, fb, li, now[1], now[2], NoMedia, "ok",
                                fbEnv, liEnv)
     IN inflight' = [inflight EXCEPT ![r] =
          IF o.resp = 200
            THEN [NoRequest EXCEPT !.op = "PublishNow", !.id = id, !.calls = o.calls,
                                   !.pc = "awaiting",
                                   !.updates = [ status |-> "published", facebook |-> fb,
                                                 linkedin |-> li, scheduleDate |-> now[1],
                                                 scheduleTime |-> now[2], mediaUrl |-> 0,
                                                 results |-> o.posts[id].results ]]
            ELSE Responded("PublishNow", id, 500)]
  /\ UNCHANGED <<posts, objects, now, last, running, usePostgres>>

\* post-now, step 2: the adapters have answered; getPost, then updatePost or
\* createPost with status published.
PostNowStoreResult(r) ==
  /\ inflight[r].pc = "awaiting" /\ inflight[r].op = "PublishNow"
  /\ posts' = Upsert(posts, inflight[r].id, inflight[r].updates)
  /\ inflight' = [inflight EXCEPT ![r] = Responded("PublishNow", inflight[r].id, 200)]
  /\ UNCHANGED <<objects, now, last, running, usePostgres>>

\* Requests are numbered in their order of arrival.
NextRequest(r) == \A j \in 1..MaxRequests : j < r <=> inflight[j].pc # "idle"

\* Posts created once, without media and due at once, either waiting for
\* approver a1 or scheduled; approve and post-now requests and cron callbacks
\* run by await and interleave.
ConcurrentNext ==
  \/ \E id \in PostIds, li \in BOOLEAN :
       ~Exists(id) /\ SendForApproval(id, TRUE, li, 1, 0, "a1", "u1", "none", NoMedia, "ok", FALSE)
  \/ \E id \in PostIds, li \in BOOLEAN :
       ~Exists(id) /\ Schedule(id, TRUE, li, 1, 0, NoApproval, NoMedia, "ok")
  \/ \E r \in 1..MaxRequests, id \in PostIds : NextRequest(r) /\ ApproveRead(r, id, "a1")
  \/ \E r \in 1..MaxRequests :
       \E fbEnv \in Relevant(Envs, inflight[r].pc = "late" /\ inflight[r].read.facebook, "ok"),
          liEnv \in Relevant(Envs, inflight[r].pc = "late" /\ inflight[r].read.linkedin, "ok") :
            ApprovePublish(r, fbEnv, liEnv)
  \/ \E r \in 1..MaxRequests : ApproveStoreResult(r)
  \/ \E r \in 1..MaxRequests, id \in PostIds, li \in BOOLEAN, fbEnv \in Envs :
       \E liEnv \in Relevant(Envs, li /\ FacebookAnswer(fbEnv).ok, "ok") :
          NextRequest(r) /\ PostNowPublish(r, id, TRUE, li, fbEnv, liEnv)
  \/ \E r \in 1..MaxRequests : PostNowStoreResult(r)
  \/ \E k \in 1..MaxTicks : \E order \in OrderedRows(posts) : TickQuery(k, order)
  \/ \E k \in 1..MaxTicks, fbEnv \in Envs, liEnv \in Envs : TickPublish(k, fbEnv, liEnv)
  \/ \E k \in 1..MaxTicks : TickStoreResult(k, "ok")
  \/ \E k \in 1..MaxTicks : TickReturn(k)
  \/ ClockTick
  \/ Return

ConcurrentSpec == Init /\ [][ConcurrentNext]_vars

\* ------------------------------------------------- the hybrid-store server
\* server.js keeps its posts behind readDB / writeDB of the hybrid database
\* layer: the posts table of database-pg when DATABASE_URL is set, else the
\* posts array of the JSON file. Every handler reads the whole database,
\* changes its copy and writes the whole copy back.
\* A post object as a handler of server.js builds it.
PostOf(status, appr, fb, li, d, t) ==
  [ status |-> status, approval |-> appr, facebook |-> fb, linkedin |-> li,
    date |-> d, time |-> t, results |-> NoResults, deleted |-> FALSE,
    mediaUrl |-> 0, mediaItems |-> << >> ]

\* The post object writeDB hands to createPost / updatePost.
AsUpdates(row) ==
  [ status |-> row.status, approvalStatus |-> row.approval, facebook |-> row.facebook,
    linkedin |-> row.linkedin, scheduleDate |-> row.date, scheduleTime |-> row.time,
    results |-> row.results ]

\* readDB: every post of the table, or the parsed file.
readDB(tbl) == tbl

\* writeDB: in PostgreSQL mode each post of the copy is created when the table
\* has no such row and updated otherwise, and no row is ever deleted; in JSON
\* mode the file is replaced by the copy.
writeDB(tbl, data, pg) ==
  IF pg
    THEN [i \in DOMAIN tbl \cup DOMAIN data |->
            IF i \notin DOMAIN data THEN tbl[i]
            ELSE IF i \in DOMAIN tbl THEN updatePost(tbl[i], AsUpdates(data[i]))
            ELSE createPost(AsUpdates(data[i]))]
    ELSE data

\* db.posts[index] = post, or db.posts.push(post)
Put(data, id, post) == [i \in DOMAIN data \cup {id} |-> IF i = id THEN post ELSE data[i]]

\* POST /api/schedule of server.js
HybridSchedule(id, fb, li, d, t) ==
  Handle("HybridSchedule", id,
         Outcome(writeDB(posts, Put(readDB(posts), id, PostOf("scheduled", NoApproval, fb, li, d, t)),
                         usePostgres),
                 objects, 200, << >>, << >>))

\* POST /api/posts/send-for-approval of server.js
HybridSendForApproval(id, fb, li, d, t, approverId, userId, note) ==
  Handle("HybridSendForApproval", id,
         IF approverId = "none" THEN Outcome(posts, objects, 400, << >>, << >>)
         ELSE Outcome(writeDB(posts,
                              Put(readDB(posts), id,
                                  PostOf("pending_approval",
                                         ApprovalRequest(approverId, userId, note), fb, li, d, t)),
                              usePostgres),
                      objects, 200, << >>,
                      <<Mail(id, "approval_request"), Mail(id, "collaborator_confirmation")>>))

\* POST /api/posts/approve of server.js: the post becomes scheduled with the
\* flag set; "post.approvalStatus.approved = true" throws on a post without
\* approval metadata.
HybridApprove(id, approverId) ==
  LET db == readDB(posts)
  IN Handle("HybridApprove", id,
       IF id \notin DOMAIN db THEN Outcome(posts, objects, 404, << >>, << >>)
       ELSE IF NotTheApprover(db[id], approverId) THEN Outcome(posts, objects, 403, << >>, << >>)
       ELSE IF ~db[id].approval.present THEN Outcome(posts, objects, 500, << >>, << >>)
       ELSE Outcome(writeDB(posts,
                            [db EXCEPT ![id] = [db[id] EXCEPT !.status = "scheduled",
                                                              !.approval.approved = "true"]],
                            usePostgres),
                    objects, 200, << >>, <<Mail(id, "approval_decision")>>))

\* POST /api/posts/reject of server.js: db.posts.splice(postIndex, 1), then
\* writeDB(db).
HybridReject(id, approverId) ==
  LET db == readDB(posts)
  IN Handle("HybridReject", id,
       IF id \notin DOMAIN db THEN Outcome(posts, objects, 404, << >>, << >>)
       ELSE IF NotTheApprover(db[id], approverId) THEN Outcome(posts, objects, 403, << >>, << >>)
       ELSE IF ~db[id].approval.present THEN Outcome(posts, objects, 500, << >>, << >>)
       ELSE Outcome(writeDB(posts, deletePost(db, id), usePostgres),
                    objects, 200, << >>, <<Mail(id, "approval_decision")>>))

\* DELETE /api/posts/:postId of server.js: pgDb.deletePost in PostgreSQL mode,
\* else the filtered copy through writeDB.
HybridDeletePost(id) ==
  Handle("HybridDeletePost", id,
         Outcome(IF usePostgres THEN deletePost(posts, id)
                                ELSE writeDB(posts, deletePost(readDB(posts), id), usePostgres),
                 objects, 200, << >>, << >>))

\* for (const post of db.posts) { if (post.status !== 'scheduled') continue; ...
\* the scheduled posts of the copy, in the order of the copy.
HybridRows(data) ==
  LET ids == {id \in DOMAIN data : data[id].status = "scheduled"}
      n == Cardinality(ids)
  IN {s \in [1..n -> ids] : \A i, j \in 1..n : i # j => s[i] # s[j]}

\* The cron callback of server.js, step 1: readDB; the callback keeps its copy
\* until it returns. One callback runs at a time here.
HybridTickRead(k, order) ==
  /\ last = Idle
  /\ \A j \in 1..MaxTicks : j < k <=> running[j].pc # "idle"
  /\ \A j \in 1..MaxTicks : running[j].pc \in {"idle", "done"}
  /\ order \in HybridRows(readDB(posts))
  /\ running' = [running EXCEPT ![k] =
                   [NotFired EXCEPT !.pc = "loop", !.rows = order, !.read = readDB(posts),
                                    !.clock = now]]
  /\ UNCHANGED <<posts, objects, now, last, inflight, usePostgres>>

\* Step 2, for the next scheduled post of the copy: the approval guards and
\* the due test, then the adapter calls in one try block, which the callback
\* awaits.
HybridTickPublish(k, fbEnv, liEnv) ==
  /\ last = Idle
  /\ running[k].pc = "loop"
  /\ running[k].rows # << >>
  /\ LET id == Head(running[k].rows)
         post == running[k].read[id]
     IN running' = [running EXCEPT ![k] =
          IF CronPublishes(post, running[k].clock)
            THEN [@ EXCEPT !.pc = "awaiting",
                           !.calls = @ \o CronCalls(id, post, NoPostData, fbEnv, liEnv),
                           !.updates = CronUpdates(post, fbEnv, liEnv)]
            ELSE [@ EXCEPT !.rows = Tail(@)]]
  /\ UNCHANGED <<posts, objects, now, last, inflight, usePostgres>>

\* Step 3, the adapters have answered: post.status = 'published' (or 'failed'
\* in the catch) on the copy, then writeDB of the whole copy.
HybridTickWrite(k) ==
  /\ last = Idle
  /\ running[k].pc = "awaiting"
  /\ LET id == Head(running[k].rows)
         db == [running[k].read EXCEPT ![id] = updatePost(@, running[k].updates)]
     IN /\ posts' = writeDB(posts, db, usePostgres)
        /\ running' = [running EXCEPT ![k] =
                         [@ EXCEPT !.pc = "loop", !.rows = Tail(@), !.read = db]]
  /\ UNCHANGED <<objects, now, last, inflight, usePostgres>>

\* Step 4, the copy has no further post: the callback returns and its copy
\* is gone.
HybridTickReturn(k) ==
  /\ last = Idle
  /\ running[k].pc = "loop"
  /\ running[k].rows = << >>
  /\ running' = [running EXCEPT ![k] = [NotFired EXCEPT !.pc = "done"]]
  /\ UNCHANGED <<posts, objects, now, last, inflight, usePostgres>>

\* The server starts in PostgreSQL mode or on the JSON file.
HybridInit ==
  /\ posts = << >>
  /\ objects = << >>
  /\ now = <<1, 0>>
  /\ last = Idle
  /\ running = [k \in 1..MaxTicks |-> NotFired]
  /\ inflight = [r \in 1..MaxRequests |-> NoRequest]
  /\ usePostgres \in BOOLEAN

\* Posts for Facebook, due at once; requests run between the steps of the
\* cron callback.
HybridNext ==
  \/ \E id \in QueueIds : HybridSchedule(id, TRUE, FALSE, 1, 0)
  \/ \E id \in QueueIds, a \in {"a1", "none"} :
       HybridSendForApproval(id, TRUE, FALSE, 1, 0, a, "u1", "none")
  \/ \E id \in QueueIds, a \in RequestApproverIds : HybridApprove(id, a)
  \/ \E id \in QueueIds, a \in RequestApproverIds : HybridReject(id, a)
  \/ \E id \in QueueIds : HybridDeletePost(id)
  \/ \E k \in 1..MaxTicks : \E order \in HybridRows(posts) : HybridTickRead(k, order)
  \/ \E k \in 1..MaxTicks, fbEnv \in Envs : HybridTickPublish(k, fbEnv, "ok")
  \/ \E k \in 1..MaxTicks : HybridTickWrite(k)
  \/ \E k \in 1..MaxTicks : HybridTickReturn(k)
  \/ Return

HybridSpec == HybridInit /\ [][HybridNext]_vars

\* =================================================================== claims
\* Adapter calls of one run, by post and platform.
CallsFor(l, id, platform) ==
  {i \in 1..Len(l.calls) : l.calls[i].id = id /\ l.calls[i].platform = platform}
InvokedFor(l, id, platform) == CallsFor(l, id, platform) # {}
FailedFor(l, id, platform) == \E i \in CallsFor(l, id, platform) : ~l.calls[i].ok
SucceededFor(l, id, platform) == \E i \in CallsFor(l, id, platform) : l.calls[i].ok
Platforms == {"facebook", "linkedin"}

\* Approval metadata present with a flag that is not strictly true.
Unapproved(row) == row.approval.present /\ row.approval.approved # "true"
\* (date, time) at or before / strictly before the business clock.
AtOrBefore(d, t, clock) == d < clock[1] \/ (d = clock[1] /\ t <= clock[2])
StrictlyBefore(d, t, clock) == d < clock[1] \/ (d = clock[1] /\ t < clock[2])
\* What the platforms and the storage do for each post during one tick.
AllTickEnvs == [PostIds -> [fb : Envs, li : Envs, dl : StorageEnvs]]

\* C1: a scheduler tick invokes no adapter for a scheduled post whose approval
\* metadata is present with a flag other than true; the post stays scheduled.
C1_TickSkipsUnapproved ==
  [][last'.op = "Tick" =>
       \A id \in DOMAIN posts :
         (posts[id].status = "scheduled" /\ Unapproved(posts[id])) =>
           /\ \A pl \in Platforms : ~InvokedFor(last', id, pl)
           /\ id \in DOMAIN posts'
           /\ posts'[id].status = "scheduled"]_vars

\* C1 witness: a tick has run over a due, non-tombstoned scheduled post that
\* carries unapproved metadata.
C1_Witness ==
  /\ last.op = "Tick"
  /\ \E id \in DOMAIN posts :
       /\ posts[id].status = "scheduled" /\ ~posts[id].deleted
       /\ Unapproved(posts[id])
       /\ AtOrBefore(posts[id].date, posts[id].time, now)

\* C2: after a successful Reject the post is gone from the Post Store, and the
\* Post Store never holds a post whose approval flag is false.
C2_NoRejectedPostStored ==
  /\ (last.op = "Reject" /\ last.resp = 200) => last.id \notin DOMAIN posts
  /\ \A id \in DOMAIN posts :
       ~(posts[id].approval.present /\ posts[id].approval.approved = "false")

\* C3: with both platforms enabled, Facebook succeeding and LinkedIn failing,
\* the stored status is published and the stored results carry LinkedIn's
\* failure message, for a scheduler tick and for a late approval.
C3_PartialSuccessIsPublished ==
  [][last'.op \in {"Tick", "Approve"} =>
       \A id \in DOMAIN posts :
         ( /\ posts[id].facebook /\ posts[id].linkedin
           /\ SucceededFor(last', id, "facebook")
           /\ FailedFor(last', id, "linkedin") ) =>
           /\ id \in DOMAIN posts'
           /\ posts'[id].status = "published"
           /\ posts'[id].results.linkedin = "LinkedIn no esta conectado"]_vars

\* C4: with both platforms enabled, a failing Facebook adapter never keeps the
\* LinkedIn adapter from being invoked in the same publish attempt, be it a
\* scheduler tick, a late approval or PublishNow.
C4_AdaptersIndependent ==
  [][/\ last'.op \in {"Tick", "Approve"} =>
          \A id \in DOMAIN posts :
            ( /\ posts[id].facebook /\ posts[id].linkedin
              /\ FailedFor(last', id, "facebook") ) => InvokedFor(last', id, "linkedin")
     /\ \A id \in PostIds, d \in Dates, t \in Times, liEnv \in Envs :
          PublishNow(id, TRUE, TRUE, d, t, NoMedia, "ok", "not_connected", liEnv)
            => InvokedFor(last', id, "linkedin")]_vars

\* C5: a tick publishing a due Facebook-only post whose adapter fails with a
\* connection error stores status failed and a facebook result entry holding
\* the error message.
C5_FacebookErrorRecorded ==
  [][last'.op = "Tick" =>
       \A id \in DOMAIN posts :
         ( /\ posts[id].facebook /\ ~posts[id].linkedin
           /\ FailedFor(last', id, "facebook") ) =>
           /\ id \in DOMAIN posts'
           /\ posts'[id].status = "failed"
           /\ posts'[id].results.facebook = "Facebook no esta conectado"]_vars

C7_NoSecondPublish ==
  (last.op \in {"PublishNow", "Approve"} /\ last.was = "published") => last.calls = << >>

\* C8: once a post's stored status is published, no operation changes it.
C8_PublishedIsTerminal ==
  [][\A id \in DOMAIN posts \cap DOMAIN posts' :
       posts[id].status = "published" => posts'[id].status = "published"]_vars

\* C9: a post that has left draft never has status draft again.
C9_NeverBackToDraft ==
  [][\A id \in DOMAIN posts \cap DOMAIN posts' :
       posts[id].status # "draft" => posts'[id].status # "draft"]_vars

ApproveInputs == (({0} \cup Dates) \X ({-1} \cup Times)) \X (Envs \X Envs \X BOOLEAN)
RecordedApprover(row) == IF row.approval.present THEN row.approval.approverId ELSE "none"

C12_WrongApproverHasNoEffect ==
  last = Idle =>
    \A id \in DOMAIN posts :
      \A a \in RequestApproverIds \ {RecordedApprover(posts[id])} :
      LET refused == [resp |-> 403, calls |-> << >>, mails |-> << >>]
      IN /\ \A in \in ApproveInputs :
              /\ ApproveStore(posts, id, a, in[1][1], in[1][2], now,
                              in[2][1], in[2][2], in[2][3]) = posts
              /\ ApproveReply(posts, objects, id, a, in[1][1], in[1][2], now,
                              in[2][1], in[2][2], "ok", in[2][3]) = refused
         /\ \A lookupFails \in BOOLEAN :
              /\ RejectStore(posts, id, a, lookupFails) = posts
              /\ RejectReply(posts, id, a, lookupFails) = refused

\* C12 witness: an Approve or Reject on a pending_approval post was refused
\* with 403 and the post is still pending_approval.
C12_Witness ==
  /\ last.op \in {"Approve", "Reject"} /\ last.resp = 403
  /\ last.was = "pending_approval"
  /\ last.id \in DOMAIN posts
  /\ posts[last.id].status = "pending_approval"
  /\ posts[last.id].approval.approved = "null"

C14_FailedNotRetried ==
  last = Idle =>
    \A id \in DOMAIN posts :
      posts[id].status = "failed" =>
        \A env \in AllTickEnvs :
          /\ TickStore(posts, now, env)[id] = posts[id]
          /\ \A order \in OrderedRows(posts) :
               LET calls == TickCalls(order, posts, objects, now, env)
               IN \A i \in 1..Len(calls) : calls[i].id # id

\* C14 witness: a tick has run over a failed post that is due, not tombstoned,
\* targets a platform and carries no unapproved metadata, and has left it
\* failed without any adapter call.
C14_Witness ==
  /\ last.op = "Tick" /\ last.was = "failed" /\ last.calls = << >>
  /\ \E id \in DOMAIN posts :
       /\ posts[id].status = "failed" /\ ~posts[id].deleted
       /\ posts[id].facebook \/ posts[id].linkedin
       /\ ~Unapproved(posts[id])
       /\ AtOrBefore(posts[id].date, posts[id].time, now)

\* C15: a tombstoned post is never published by a scheduler tick (no adapter
\* call, row unchanged), and neither the scheduler query nor the
\* pending-approval listing of any approver returns it.
C15_TombstonedNeverPublished ==
  last = Idle =>
    \A id \in DOMAIN posts :
      posts[id].deleted =>
        /\ id \notin ScheduledRows(posts)
        /\ \A a \in RequestApproverIds : id \notin PendingApprovalRows(posts, a)
        /\ \A env \in AllTickEnvs :
             /\ TickStore(posts, now, env)[id] = posts[id]
             /\ \A order \in OrderedRows(posts) :
                  LET calls == TickCalls(order, posts, objects, now, env)
                  IN \A i \in 1..Len(calls) : calls[i].id # id

\* C15 witness: after the user's removal a tick has run over a tombstoned post
\* that is scheduled, due, targets a platform and carries no unapproved
\* metadata, and has left it scheduled without any adapter call.
C15_Witness ==
  /\ last.op = "Tick" /\ last.was = "scheduled" /\ last.calls = << >>
  /\ \E id \in DOMAIN posts :
       /\ posts[id].deleted /\ posts[id].status = "scheduled"
       /\ posts[id].facebook \/ posts[id].linkedin
       /\ ~Unapproved(posts[id])
       /\ AtOrBefore(posts[id].date, posts[id].time, now)

\* The adapter calls made for a post whose only media item is a PDF: Facebook
\* gets a text-only feed post without any payload, LinkedIn the document.
PdfSkippedByFacebook(calls, id) ==
  \A i \in 1..Len(calls) :
    (calls[i].id = id /\ calls[i].ok) =>
      /\ calls[i].platform = "facebook" =>
           calls[i].endpoint = "feed" /\ calls[i].sent = << >>
      /\ calls[i].platform = "linkedin" =>
           calls[i].endpoint = "documents" /\ calls[i].sent = <<"pdf">>

\* A body, or a stored post, whose only media item is a PDF.
OnlyPdf == [items |-> <<"pdf">>, media |-> "none"]
HoldsOnlyPdf(row) == Len(row.mediaItems) = 1 /\ row.mediaItems[1].type = "pdf"

\* C16: publishing a post that targets both platforms and whose only media
\* item is a PDF, with storage working, makes the Facebook adapter post
\* text-only to the feed without uploading the document, and the LinkedIn
\* adapter use the document flow; for PublishNow, a late approval and a
\* scheduler tick.
C16_FacebookSkipsPdf ==
  last = Idle =>
    /\ \A id \in PostIds, fbEnv \in Envs, liEnv \in Envs :
         PdfSkippedByFacebook(
           PublishNowOutcome(posts, objects, id, TRUE, TRUE, 1, 0, OnlyPdf, "ok",
                             fbEnv, liEnv).calls, id)
    /\ \A id \in DOMAIN posts :
         (HoldsOnlyPdf(posts[id]) /\ posts[id].facebook /\ posts[id].linkedin) =>
           /\ \A fbEnv \in Envs, liEnv \in Envs, lookupFails \in BOOLEAN :
                PdfSkippedByFacebook(
                  ApproveReply(posts, objects, id, RecordedApprover(posts[id]), 0, -1, now,
                               fbEnv, liEnv, "ok", lookupFails).calls, id)
           /\ \A env \in AllTickEnvs, order \in OrderedRows(posts) :
                env[id].dl = "ok" =>
                  PdfSkippedByFacebook(TickCalls(order, posts, objects, now, env), id)

\* The storage conditions under which no upload works.
StorageDown == {"unconfigured", "unavailable"}
\* The post is stored and a publish with storage back would hand its media
\* to the adapters.
StoredWithMedia(o, id, status) ==
  /\ o.resp = 200
  /\ id \in DOMAIN o.posts
  /\ o.posts[id].status = status
  /\ Loaded(o.posts[id], o.objects, "ok") # NoPostData
\* Some adapter was handed a payload.
MediaSent(calls) == \E i \in 1..Len(calls) : calls[i].sent # << >>

\* C17: with storage unconfigured or unavailable, Schedule, PublishNow and
\* SendForApproval of a body that carries media still succeed: the post is
\* stored, and its media reaches the adapters when it is published.
C17_InlineFallbackWhenStorageDown ==
  last = Idle =>
    \A id \in PostIds, m \in BodyMedia \ {NoMedia}, st \in StorageDown :
      /\ StoredWithMedia(ScheduleOutcome(posts, objects, id, TRUE, TRUE, 1, 0, NoApproval,
                                         m, st), id, "scheduled")
      /\ StoredWithMedia(SendForApprovalOutcome(posts, objects, id, TRUE, TRUE, 1, 0, "a1",
                                                "u1", "none", m, st, FALSE),
                         id, "pending_approval")
      /\ LET o == PublishNowOutcome(posts, objects, id, TRUE, TRUE, 1, 0, m, st, "ok", "ok")
         IN /\ o.resp = 200
            /\ id \in DOMAIN o.posts /\ o.posts[id].status = "published"
            /\ MediaSent(o.calls)

\* Every object a post refers to: its post_media urls and its media_url.
ObjectsOf(row) ==
  {row.mediaItems[i].url : i \in 1..Len(row.mediaItems)} \cup (IF row.mediaUrl # 0 THEN {row.mediaUrl} ELSE {})

\* C18: after a successful Reject, with storage working, every media object
\* of the rejected post, each item of its media collection and its legacy
\* single reference, is gone from the bucket.
C18_RejectDeletesAllMedia ==
  last = Idle =>
    \A id \in DOMAIN posts :
      LET a == RecordedApprover(posts[id])
          left == RejectObjects(posts, objects, id, a, FALSE, "ok")
      IN id \notin DOMAIN RejectStore(posts, id, a, FALSE) =>
           \A url \in ObjectsOf(posts[id]) : left[url] = "gone"

\* C19: a failing recipient lookup leaves the posts table exactly as the same
\* operation leaves it when its notification goes out: for SendForApproval,
\* and for Approve and Reject of a pending_approval post by its approver
\* (PublishNow and the scheduler look nobody up outside the mail functions).
C19_NotificationFailureHarmless ==
  last = Idle =>
    \A id \in PostIds, a \in ApproverIds :
      /\ \A note \in Notes, d \in Dates, t \in Times :
           SendForApprovalOutcome(posts, objects, id, TRUE, TRUE, d, t, a, "u1", note,
                                  NoMedia, "ok", TRUE).posts
             = SendForApprovalOutcome(posts, objects, id, TRUE, TRUE, d, t, a, "u1", note,
                                      NoMedia, "ok", FALSE).posts
      /\ (id \in DOMAIN posts /\ posts[id].status = "pending_approval"
            /\ RecordedApprover(posts[id]) = a) =>
           /\ \A in \in ApproveInputs :
                ApproveStore(posts, id, a, in[1][1], in[1][2], now, in[2][1], in[2][2], TRUE)
                  = ApproveStore(posts, id, a, in[1][1], in[1][2], now, in[2][1], in[2][2],
                                 FALSE)
           /\ RejectStore(posts, id, a, TRUE) = RejectStore(posts, id, a, FALSE)

\* The adapter calls the cron callbacks have made for a post on a platform.
TickCallsFor(k, id, platform) ==
  {i \in 1..Len(running[k].calls) :
     running[k].calls[i].id = id /\ running[k].calls[i].platform = platform}

\* C20: no two scheduler ticks both publish the same post, even when their
\* runs overlap: over all ticks, each adapter is invoked at most once for a
\* post that was scheduled once.
C20_NoDoublePublishAcrossTicks ==
  \A id \in PostIds, platform \in Platforms :
    /\ \A k \in 1..MaxTicks : Cardinality(TickCallsFor(k, id, platform)) <= 1
    /\ \A k1, k2 \in 1..MaxTicks :
         (TickCallsFor(k1, id, platform) # {} /\ TickCallsFor(k2, id, platform) # {}) => k1 = k2

\* A post waiting for its approver's decision.
AwaitsDecision(row) ==
  row.status = "pending_approval" /\ row.approval.present /\ row.approval.approved = "null"

\* The post is still there, not scheduled, with its approval metadata intact.
StillAwaits(tbl, id, row) ==
  /\ id \in DOMAIN tbl
  /\ tbl[id].status # "scheduled"
  /\ tbl[id].approval = row.approval

\* C21: a pending_approval post with an unset approval flag becomes scheduled
\* only through Approve by its recorded approver: Schedule or SubmitDraft with
\* the same post id, Approve by anyone else and a scheduler tick neither move
\* it to scheduled nor clear or overwrite its approval metadata.
C21_OnlyApproveSchedulesPending ==
  last = Idle =>
    \A id \in DOMAIN posts :
      AwaitsDecision(posts[id]) =>
        /\ \A fb \in BOOLEAN, li \in BOOLEAN, d \in Dates, t \in Times, appr \in ApprovalInputs :
             /\ StillAwaits(ScheduleOutcome(posts, objects, id, fb, li, d, t, appr,
                                            NoMedia, "ok").posts, id, posts[id])
             /\ StillAwaits(SubmitDraftOutcome(posts, objects, id, fb, li, d, t, appr,
                                               NoMedia, "ok").posts, id, posts[id])
        /\ \A a \in RequestApproverIds \ {RecordedApprover(posts[id])}, in \in ApproveInputs :
             StillAwaits(ApproveStore(posts, id, a, in[1][1], in[1][2], now,
                                      in[2][1], in[2][2], in[2][3]), id, posts[id])
        /\ \A env \in AllTickEnvs : StillAwaits(TickStore(posts, now, env), id, posts[id])

\* The adapter calls a request in flight has made for a post on a platform.
RequestCallsFor(r, id, platform) ==
  {i \in 1..Len(inflight[r].calls) :
     inflight[r].calls[i].id = id /\ inflight[r].calls[i].platform = platform}

\* C22: publish attempts for one post that are in flight together invoke each
\* platform adapter at most once between them: two Approve calls for the same
\* overdue pending_approval post, and a PublishNow call together with a
\* scheduler tick for the same due post.
C22_ConcurrentPublishesInvokeOnce ==
  \A id \in PostIds, platform \in Platforms :
    /\ \A r1, r2 \in 1..MaxRequests :
         ( /\ r1 # r2
           /\ inflight[r1].op = "Approve" /\ inflight[r1].pc = "awaiting"
           /\ inflight[r2].op = "Approve" /\ inflight[r2].pc = "awaiting"
           /\ inflight[r1].read.status = "pending_approval"
           /\ inflight[r2].read.status = "pending_approval" ) =>
           ~(RequestCallsFor(r1, id, platform) # {} /\ RequestCallsFor(r2, id, platform) # {})
    /\ \A r \in 1..MaxRequests, k \in 1..MaxTicks :
         ( /\ inflight[r].op = "PublishNow" /\ inflight[r].pc = "awaiting"
           /\ running[k].pc = "awaiting" ) =>
           ~(RequestCallsFor(r, id, platform) # {} /\ TickCallsFor(k, id, platform) # {})

\* The rows a cron run has read and not processed that pass the guards and
\* the due test.
LeftUnprocessed(k) ==
  {i \in 1..Len(running[k].rows) :
     CronPublishes(running[k].read[running[k].rows[i]], running[k].clock)}

\* C23: an error raised while one due post is published (an adapter error or
\* an error of the Post Store while the outcome is recorded) never keeps the
\* remaining due posts of the tick from being processed: a run that has ended
\* has left no eligible due row of its result unprocessed.
C23_TickSurvivesPostErrors ==
  \A k \in 1..MaxTicks : running[k].pc = "done" => LeftUnprocessed(k) = {}

\* C24: Reject removes only a pending_approval post: for a post in status
\* draft, scheduled, published or failed, Reject by anyone, its recorded
\* approver included, leaves the posts table and the bucket as they are.
C24_RejectOnlyRemovesPending ==
  last = Idle =>
    \A id \in DOMAIN posts :
      posts[id].status # "pending_approval" =>
        \A a \in RequestApproverIds, lookupFails \in BOOLEAN, st \in StorageEnvs :
          /\ RejectStore(posts, id, a, lookupFails) = posts
          /\ RejectObjects(posts, objects, id, a, lookupFails, st) = objects

\* C25: Approve and Reject of a post without approval metadata are refused
\* whatever the request carries as approverId, an omitted approverId included:
\* the answer is an error, the posts table is as before and no adapter is
\* invoked.
C25_NoMetadataNoApprovalGate ==
  last = Idle =>
    \A id \in DOMAIN posts :
      ~posts[id].approval.present =>
        \A a \in RequestApproverIds :
          /\ \A in \in ApproveInputs :
               LET reply == ApproveReply(posts, objects, id, a, in[1][1], in[1][2], now,
                                         in[2][1], in[2][2], "ok", in[2][3])
               IN /\ reply.resp # 200
                  /\ reply.calls = << >>
                  /\ ApproveStore(posts, id, a, in[1][1], in[1][2], now,
                                  in[2][1], in[2][2], in[2][3]) = posts
          /\ \A lookupFails \in BOOLEAN :
               /\ RejectReply(posts, id, a, lookupFails).resp # 200
               /\ RejectStore(posts, id, a, lookupFails) = posts

\* The same adapter outcomes for every post of a tick.
SameEnv(fbEnv, liEnv) == [i \in PostIds |-> [fb |-> fbEnv, li |-> liEnv, dl |-> "ok"]]

\* The posts table with the post approved on time: scheduled, flag true.
ApprovedOnTime(tbl, id) ==
  [tbl EXCEPT ![id] = [tbl[id] EXCEPT !.status = "scheduled",
                                      !.approval = UpdatedApprovalStatus(tbl[id])]]

\* C26: the scheduler-tick publish and the late-approval publish of the same
\* overdue post, with the same adapter outcomes, store the same status and
\* the same per-platform result map, the status being published exactly when
\* an enabled platform succeeded (also when no platform is enabled).
C26_TickAndLateApprovalAgree ==
  last = Idle =>
    \A id \in DOMAIN posts, fbEnv \in Envs, liEnv \in Envs :
      LET row == posts[id]
          byTick == TickStore(ApprovedOnTime(posts, id), now, SameEnv(fbEnv, liEnv))[id]
          byApprove == ApproveStore(posts, id, RecordedApprover(row), 0, -1, now,
                                    fbEnv, liEnv, FALSE)[id]
          succeeded == (row.facebook /\ fbEnv = "ok") \/ (row.linkedin /\ liEnv = "ok")
      IN (AwaitsDecision(row) /\ ~row.deleted /\ AtOrBefore(row.date, row.time, now)) =>
           /\ byTick.status = byApprove.status
           /\ byTick.results = byApprove.results
           /\ (byTick.status = "published") <=> succeeded
           /\ (byTick.status = "failed") <=> ~succeeded

\* No payload handed to a platform is the body's legacy media.
NothingFromLegacy(calls, m) ==
  \A i \in 1..Len(calls) : \A j \in 1..Len(calls[i].sent) : calls[i].sent[j] # m.media

\* C27: when the post handed to the adapters has a non-empty media collection
\* and also a legacy single media (here of another kind than the item), what
\* each adapter publishes comes from the collection, never from the legacy
\* media.
C27_CollectionBeforeLegacy ==
  last = Idle =>
    \A id \in PostIds, m \in BothMedia :
      m.items[1] # m.media =>
        NothingFromLegacy(PublishNowOutcome(posts, objects, id, TRUE, TRUE, 1, 0, m, "ok",
                                            "ok", "ok").calls, m)

\* The post a cron run is publishing: its adapters are invoked and awaited.
Publishing(k) == Head(running[k].rows)

\* Post i of the run's result is eligible and due strictly before post j.
DueBefore(k, i, j) ==
  LET ri == running[k].read[i]
      rj == running[k].read[j]
  IN /\ CronPublishes(ri, running[k].clock)
     /\ ri.date < rj.date \/ (ri.date = rj.date /\ ri.time < rj.time)

\* C28: a tick publishes its eligible due posts one at a time, earliest due
\* first: while a cron run has the adapters of one post invoked, every
\* eligible post of its result that is due earlier is behind it, stored as
\* published or failed.
C28_TickPublishesOldestFirst ==
  \A k \in 1..MaxTicks :
    running[k].pc = "awaiting" =>
      \A i \in DOMAIN running[k].read :
        DueBefore(k, i, Publishing(k)) =>
          /\ \A n \in 1..Len(running[k].rows) : running[k].rows[n] # i
          /\ i \in DOMAIN posts
          /\ posts[i].status \in {"published", "failed"}

\* C28 witness: a cron run has the adapters of a post invoked while an
\* eligible post of the same result, due earlier, is already processed.
C28_Witness ==
  \E k \in 1..MaxTicks :
    /\ running[k].pc = "awaiting"
    /\ running[k].calls # << >>
    /\ \E i \in DOMAIN running[k].read :
         /\ DueBefore(k, i, Publishing(k))
         /\ posts[i].status \in {"published", "failed"}

\* The whole-database write of cron callback k, for the post it has published.
HybridWrites(k) == running[k].pc = "awaiting" /\ running'[k].pc = "loop"

\* C29: in the hybrid-store server, what request handlers committed while a
\* cron callback was in progress survives the callback's whole-database write:
\* the write leaves every other post as the store holds it (a post added since
\* the callback's read stays, an approval or rejection since stays, a deleted
\* post stays deleted), and it does not bring back the post being published
\* when that was deleted meanwhile.
C29_TickWriteKeepsCommittedChanges ==
  [][\A k \in 1..MaxTicks :
       HybridWrites(k) =>
         LET id == Head(running[k].rows)
         IN /\ \A i \in (DOMAIN posts \cup DOMAIN posts') \ {id} :
                 i \in DOMAIN posts /\ i \in DOMAIN posts' /\ posts'[i] = posts[i]
            /\ id \notin DOMAIN posts => id \notin DOMAIN posts']_vars

\* C30: in the hybrid-store server, once Reject has answered with success the
\* rejected post is no longer among the posts readDB returns, in PostgreSQL
\* mode as on the JSON file.
C30_RejectedPostIsGone ==
  (last.op = "HybridReject" /\ last.resp = 200) => last.id \notin DOMAIN readDB(posts)
====
